---- MODULE Spec2Model ----
(***************************************************************************)
(* Model of plugins/modules/nios_network.py: one module invocation.        *)
(*                                                                         *)
(* Python values are encoded as follows.                                   *)
(*   None            the empty tuple <<>>                                  *)
(*   a value v       the one-element tuple <<v>>  (Some(v))                *)
(*   a dict          a function from its keys to encoded values            *)
(*   a list          a sequence                                            *)
(*   a str           a sequence of lexemes (the CIDR) or of characters     *)
(*                   (an e-mail address), so that split('/') and the       *)
(*                   substring test `'num' in s` are computed, not assumed *)
(***************************************************************************)
EXTENDS Integers, Sequences, FiniteSets, TLC

VARIABLES pc, params, ib_spec, network_type, run_calls, run_type,
          proposed, result, output, failure

vars == <<pc, params, ib_spec, network_type, run_calls, run_type,
          proposed, result, output, failure>>

None == <<>>
Some(v) == <<v>>

\* longest options list the caller passes
MaxOpts == 2

(***************************************************************************)
(* Object types imported from module_utils.api (lines 195-196).            *)
(***************************************************************************)
NIOS_IPV4_NETWORK == "network"
NIOS_IPV6_NETWORK == "ipv6network"
NIOS_IPV4_NETWORK_CONTAINER == "networkcontainer"
NIOS_IPV6_NETWORK_CONTAINER == "ipv6networkcontainer"

(***************************************************************************)
(* ib_spec as main() declares it (lines 292-314).  Each field descriptor   *)
(* keeps the entries the module's own code reads: type, elements, ib_req   *)
(* and transform.  FieldOrder is the dict's insertion order.               *)
(***************************************************************************)
FieldOrder ==
    <<"network", "network_view", "options", "extattrs", "comment", "bootfile",
      "use_bootfile", "container", "ddns_domainname", "use_ddns_domainname",
      "email_list", "use_email_list", "ipam_email_addresses",
      "use_ipam_email_addresses", "enable_email_warnings",
      "use_ipam_trap_settings", "ipam_trap_settings", "members">>

Fields == {FieldOrder[i] : i \in 1..Len(FieldOrder)}

Field(type, elements, ib_req, transform) ==
    [type |-> type, elements |-> elements, ib_req |-> ib_req, transform |-> transform]

IbSpec ==
    [k \in Fields |->
        CASE k = "network"              -> Field("str", "", TRUE, "")
          [] k = "network_view"         -> Field("str", "", TRUE, "")
          [] k = "options"              -> Field("list", "dict", FALSE, "options")
          [] k = "extattrs"             -> Field("dict", "", FALSE, "")
          [] k = "container"            -> Field("bool", "", TRUE, "")
          [] k = "email_list"           -> Field("list", "str", FALSE, "")
          [] k = "ipam_email_addresses" -> Field("list", "str", FALSE, "")
          [] k = "ipam_trap_settings"   -> Field("dict", "", FALSE, "")
          [] k = "members"              -> Field("list", "dict", FALSE, "")
          [] k \in {"comment", "bootfile", "ddns_domainname"}
                                        -> Field("str", "", FALSE, "")
          [] OTHER                      -> Field("bool", "", FALSE, "")]

(***************************************************************************)
(* Caller inputs.                                                          *)
(***************************************************************************)
\* CIDR strings, as sequences of lexemes
Networks ==
    { <<"10.0.0.0", "/", "8">>,        \* IPv4 network
      <<"fe80::", "/", "64">>,         \* IPv6 network
      <<"10.0.0.0">>,                  \* a bare IPv4 address, no prefix
      <<"corp-net", "/", "8">>,        \* not an address
      <<"/", "10.0.0.0">> }            \* empty address part

ContainerValues == {None, Some(TRUE), Some(FALSE)}

\* option descriptors as AnsibleModule leaves them for option_spec (lines
\* 281-290): every key present, an omitted name/num being None
OptionNames == {None, Some("routers"), Some("vendor-encapsulated-options")}
OptionNums == {None, Some(3), Some(43)}

OptionDescriptors ==
    { [name |-> n, num |-> u, value |-> Some("v"), use_option |-> Some(TRUE),
       vendor_class |-> Some("DHCP")] : n \in OptionNames, u \in OptionNums }

SeqsUpTo(S, n) == UNION { [1..k -> S] : k \in 0..n }

OptionLists == {None} \cup { Some(l) : l \in SeqsUpTo(OptionDescriptors, MaxOpts) }

\* e-mail addresses, as sequences of characters
MailOps == <<"o", "p", "s", "@", "x">>
MailHostname == <<"n", "a", "m", "e", "@", "x">>
MailNumbers == <<"n", "u", "m", "@", "x">>

EmailLists == {None, Some(<<MailOps, MailHostname>>), Some(<<MailNumbers>>)}
IpamEmailLists == {None, Some(<<MailOps>>)}

\* members is a list of free-form dicts (elements='dict', no sub-spec)
MemberLists ==
    { None,
      Some(<<[name |-> Some("nios.example.com"), use_option |-> Some(TRUE)]>>),
      Some(<<[name |-> Some("routers"), use_option |-> Some(TRUE)]>>) }

\* module.params after AnsibleModule parsing (line 325): the modelled inputs
\* plus the schema defaults of the fields passed through unmodified
ModuleParams(n, c, o, e, i, m) ==
    [k \in Fields |->
        CASE k = "network"              -> Some(n)
          [] k = "network_view"         -> Some("default")
          [] k = "options"              -> o
          [] k = "container"            -> c
          [] k = "email_list"           -> e
          [] k = "ipam_email_addresses" -> i
          [] k = "members"              -> m
          [] k \in {"use_bootfile", "use_ddns_domainname", "use_email_list",
                    "use_ipam_email_addresses", "enable_email_warnings",
                    "use_ipam_trap_settings", "ddns_domainname"}
                                        -> Some(FALSE)
          [] OTHER                      -> None]

(***************************************************************************)
(* Helpers for Python built-ins.                                           *)
(***************************************************************************)
Del(d, k) == [x \in DOMAIN d \ {k} |-> d[x]]

\* ip.split('/')[0]
SplitFirst(s) ==
    LET cuts == {i \in 1..Len(s) : s[i] = "/"}
    IN  IF cuts = {} THEN s
        ELSE SubSeq(s, 1, (CHOOSE i \in cuts : \A j \in cuts : i <= j) - 1)

\* `sub in s` for two strings
Contains(sub, s) ==
    \E i \in 0..(Len(s) - Len(sub)) : SubSeq(s, i + 1, i + Len(sub)) = sub

\* truthiness of a bool-or-None value
Truthy(v) == v /= None /\ v[1] = TRUE

(***************************************************************************)
(* Address validators of module_utils.network (imported, line 198).        *)
(***************************************************************************)
validate_ip_address(a) == a = <<"10.0.0.0">>
validate_ip_v6_address(a) == a = <<"fe80::">>

\* options() requiring `name` alone
options_NameOnly(p) ==
    LET items == p["options"][1]
        opt(i) == [k \in {x \in DOMAIN items[i] : items[i][x] /= None} |-> items[i][k]]
    IN  [failed |-> \E i \in 1..Len(items) : "name" \notin DOMAIN opt(i),
         value  |-> [i \in 1..Len(items) |-> opt(i)]]

\* options() appending the item itself instead of the filtered copy
options_KeepsNulls(p) ==
    LET items == p["options"][1]
        opt(i) == [k \in {x \in DOMAIN items[i] : items[i][x] /= None} |-> items[i][k]]
    IN  [failed |-> \E i \in 1..Len(items) :
                        "name" \notin DOMAIN opt(i) /\ "num" \notin DOMAIN opt(i),
         value  |-> items]

(***************************************************************************)
(* options(module), lines 201-223.  `failed` stands for module.fail_json.  *)
(***************************************************************************)
options(p) ==
    LET items == p["options"][1]
        opt(i) == [k \in {x \in DOMAIN items[i] : items[i][x] /= None} |-> items[i][k]]
    IN  [failed |-> \E i \in 1..Len(items) :
                        "name" \notin DOMAIN opt(i) /\ "num" \notin DOMAIN opt(i),
         value  |-> [i \in 1..Len(items) |-> opt(i)]]

\* obj_filter of main(), line 331
ObjFilter(p, spec) == [k \in {x \in DOMAIN spec : spec[x].ib_req} |-> p[k]]

\* check_ip_addr_type() returning the plain network types in the container branch
check_ip_addr_type_NoContainerType(obj_filter, spec) ==
    LET check_ip == SplitFirst(obj_filter["network"][1])
        s == IF "container" \in DOMAIN obj_filter /\ Truthy(obj_filter["container"])
             THEN Del(Del(spec, "container"), "options")
             ELSE Del(spec, "container")
    IN  IF validate_ip_address(check_ip) THEN [ret |-> Some(NIOS_IPV4_NETWORK), spec |-> s]
        ELSE IF validate_ip_v6_address(check_ip) THEN [ret |-> Some(NIOS_IPV6_NETWORK), spec |-> s]
        ELSE [ret |-> None, spec |-> s]

\* check_ip_addr_type() without `del ib_spec['options']`
check_ip_addr_type_KeepsOptions(obj_filter, spec) ==
    LET check_ip == SplitFirst(obj_filter["network"][1])
        c == "container" \in DOMAIN obj_filter /\ Truthy(obj_filter["container"])
        s == Del(spec, "container")
    IN  IF validate_ip_address(check_ip)
        THEN [ret |-> Some(IF c THEN NIOS_IPV4_NETWORK_CONTAINER ELSE NIOS_IPV4_NETWORK), spec |-> s]
        ELSE IF validate_ip_v6_address(check_ip)
        THEN [ret |-> Some(IF c THEN NIOS_IPV6_NETWORK_CONTAINER ELSE NIOS_IPV6_NETWORK), spec |-> s]
        ELSE [ret |-> None, spec |-> s]

\* check_ip_addr_type() with a final `else` that treats the address as IPv6
check_ip_addr_type_ElseV6(obj_filter, spec) ==
    LET check_ip == SplitFirst(obj_filter["network"][1])
        c == "container" \in DOMAIN obj_filter /\ Truthy(obj_filter["container"])
        s == IF c THEN Del(Del(spec, "container"), "options") ELSE Del(spec, "container")
    IN  IF validate_ip_address(check_ip)
        THEN [ret |-> Some(IF c THEN NIOS_IPV4_NETWORK_CONTAINER ELSE NIOS_IPV4_NETWORK), spec |-> s]
        ELSE [ret |-> Some(IF c THEN NIOS_IPV6_NETWORK_CONTAINER ELSE NIOS_IPV6_NETWORK), spec |-> s]

(***************************************************************************)
(* check_ip_addr_type(obj_filter, ib_spec), lines 226-246.  `ret` is None  *)
(* when the function falls off its end; `spec` is ib_spec after the        *)
(* in-place deletions.                                                     *)
(***************************************************************************)
check_ip_addr_type(obj_filter, spec) ==
    LET ip == obj_filter["network"][1]
        check_ip == SplitFirst(ip)
    IN  IF "container" \in DOMAIN obj_filter /\ Truthy(obj_filter["container"])
        THEN LET s == Del(Del(spec, "container"), "options")
             IN  IF validate_ip_address(check_ip)
                 THEN [ret |-> Some(NIOS_IPV4_NETWORK_CONTAINER), spec |-> s]
                 ELSE IF validate_ip_v6_address(check_ip)
                 THEN [ret |-> Some(NIOS_IPV6_NETWORK_CONTAINER), spec |-> s]
                 ELSE [ret |-> None, spec |-> s]
        ELSE LET s == Del(spec, "container")
             IN  IF validate_ip_address(check_ip)
                 THEN [ret |-> Some(NIOS_IPV4_NETWORK), spec |-> s]
                 ELSE IF validate_ip_v6_address(check_ip)
                 THEN [ret |-> Some(NIOS_IPV6_NETWORK), spec |-> s]
                 ELSE [ret |-> None, spec |-> s]

(***************************************************************************)
(* check_vendor_specific_dhcp_option(module, ib_spec), lines 249-275.      *)
(***************************************************************************)
special_options ==
    ("routers" :> 3) @@ ("router-templates" :> 1) @@ ("domain-name-servers" :> 6) @@
    ("domain-name" :> 15) @@ ("broadcast-address" :> 28) @@
    ("broadcast-address-offset" :> 1) @@ ("dhcp-lease-time" :> 51) @@
    ("dhcp6.name-servers" :> 23)

SpecialKeys == DOMAIN special_options
SpecialValues == {special_options[k] : k \in SpecialKeys}

\* the filter looking at `name` before `num`
FilterDict_NameFirst(d) ==
    IF "name" \in DOMAIN d /\ d["name"] /= None
    THEN IF d["name"][1] \notin SpecialKeys /\ "use_option" \in DOMAIN d
         THEN Del(d, "use_option") ELSE d
    ELSE IF "num" \in DOMAIN d /\ d["num"] /= None
    THEN IF d["num"][1] \notin SpecialValues /\ "use_option" \in DOMAIN d
         THEN Del(d, "use_option") ELSE d
    ELSE d

\* lines 265-274 for a dict entry
FilterDict(d) ==
    IF "num" \in DOMAIN d
    THEN IF (d["num"] = None \/ d["num"][1] \notin SpecialValues) /\ d["num"] /= None
         THEN IF "use_option" \in DOMAIN d THEN Del(d, "use_option") ELSE d
         ELSE d
    ELSE IF "name" \in DOMAIN d
    THEN IF (d["name"] = None \/ d["name"][1] \notin SpecialKeys) /\ d["name"] /= None
         THEN IF "use_option" \in DOMAIN d THEN Del(d, "use_option") ELSE d
         ELSE d
    ELSE d

\* lines 265-274 for a str entry: `'num' in s` is a substring test, and
\* s['num'] / s['name'] then raises TypeError
StrRaises(s) ==
    IF Contains(<<"n", "u", "m">>, s) THEN TRUE
    ELSE Contains(<<"n", "a", "m", "e">>, s)

\* isinstance(module.params[key], list)
IsList(p, spec, key) == spec[key].type = "list" /\ p[key] /= None

\* the outer loop of line 261 over the remaining keys, in dict order; `err`
\* is TRUE when an exception leaves the function, `params` is module.params
\* as mutated up to then
RECURSIVE FilterKeys(_, _, _)
FilterKeys(keys, p, spec) ==
    IF keys = <<>> THEN [err |-> FALSE, params |-> p]
    ELSE LET key == Head(keys)
         IN  IF ~IsList(p, spec, key) THEN FilterKeys(Tail(keys), p, spec)
             ELSE LET l == p[key][1]
                  IN  IF spec[key].elements = "str"
                      THEN IF \E i \in 1..Len(l) : StrRaises(l[i])
                           THEN [err |-> TRUE, params |-> p]
                           ELSE FilterKeys(Tail(keys), p, spec)
                      ELSE FilterKeys(Tail(keys),
                                      [p EXCEPT ![key] =
                                          Some([i \in 1..Len(l) |-> FilterDict(l[i])])],
                                      spec)

check_vendor_specific_dhcp_option(p, spec) ==
    FilterKeys(SelectSeq(FieldOrder, LAMBDA k : k \in DOMAIN spec), p, spec)

(***************************************************************************)
(* WapiModule.run(ib_obj_type, ib_spec) of module_utils.api: for every     *)
(* remaining schema field whose parameter is not None it applies the       *)
(* field's transform, then reconciles and returns a result mapping.        *)
(***************************************************************************)
RunResults == {[changed |-> TRUE], [changed |-> FALSE]}

Transforms(p, spec) ==
    {k \in DOMAIN spec : spec[k].transform /= "" /\ p[k] /= None}

\* a transform called module.fail_json
TransformFails(p, spec) ==
    IF "options" \in Transforms(p, spec) THEN options(p).failed ELSE FALSE

Init ==
    /\ pc = "start"
    /\ \E n \in Networks, c \in ContainerValues, o \in OptionLists,
          e \in EmailLists, i \in IpamEmailLists, m \in MemberLists :
            params = ModuleParams(n, c, o, e, i, m)
    /\ ib_spec = IbSpec
    /\ network_type = None
    /\ run_calls = 0
    /\ run_type = None
    /\ proposed = None
    /\ result = None
    /\ output = None
    /\ failure = None

\* main(), lines 331-332
SelectType ==
    /\ pc = "start"
    /\ LET r == check_ip_addr_type(ObjFilter(params, ib_spec), ib_spec)
       IN  /\ ib_spec' = r.spec
           /\ \/ /\ r.ret /= None
                 /\ network_type' = r.ret
                 /\ pc' = "filter"
                 /\ failure' = failure
              \/ /\ r.ret = None
                 /\ network_type' = network_type
                 /\ pc' = "failed"
                 /\ failure' = Some("TypeError: cannot unpack non-iterable NoneType object")
    /\ UNCHANGED <<params, run_calls, run_type, proposed, result, output>>

\* main(), lines 334-337: WapiModule(module), then the vendor-option filter
VendorFilter ==
    /\ pc = "filter"
    /\ LET r == check_vendor_specific_dhcp_option(params, ib_spec)
       IN  /\ params' = r.params
           /\ \/ /\ ~r.err
                 /\ pc' = "run"
                 /\ failure' = failure
              \/ /\ r.err
                 /\ pc' = "failed"
                 /\ failure' = Some("TypeError: string indices must be integers")
    /\ UNCHANGED <<ib_spec, network_type, run_calls, run_type, proposed, result, output>>

\* main(), line 340: wapi.run(network_type, ib_spec)
Run ==
    /\ pc = "run"
    /\ run_calls' = run_calls + 1
    /\ run_type' = network_type
    /\ \/ /\ TransformFails(params, ib_spec)
          /\ pc' = "failed"
          /\ failure' = Some("one of name or num is required for option value")
          /\ UNCHANGED <<proposed, result>>
       \/ /\ "options" \in Transforms(params, ib_spec)
          /\ ~options(params).failed
          /\ proposed' = Some(options(params).value)
          /\ \E r \in RunResults : result' = Some(r)
          /\ pc' = "exit"
          /\ failure' = failure
       \/ /\ "options" \notin Transforms(params, ib_spec)
          /\ \E r \in RunResults : result' = Some(r)
          /\ pc' = "exit"
          /\ UNCHANGED <<proposed, failure>>
       \/ /\ ~TransformFails(params, ib_spec)
          /\ pc' = "failed"
          /\ failure' = Some("WAPI error")
          /\ UNCHANGED <<proposed, result>>
    /\ UNCHANGED <<params, ib_spec, network_type, output>>

\* main(), line 342: module.exit_json(**result)
Exit ==
    /\ pc = "exit"
    /\ output' = result
    /\ pc' = "done"
    /\ UNCHANGED <<params, ib_spec, network_type, run_calls, run_type, proposed,
                   result, failure>>

Next == SelectType \/ VendorFilter \/ Run \/ Exit

Spec == Init /\ [][Next]_vars
(***************************************************************************)
(* Properties.                                                             *)
(***************************************************************************)
Address == SplitFirst(params["network"][1])
IsV4 == validate_ip_address(Address)
IsV6 == validate_ip_v6_address(Address)
IsContainer == params["container"] = Some(TRUE)
MissingIdentifier == Some("one of name or num is required for option value")
StringIndexError == Some("TypeError: string indices must be integers")

\* d has no non-null `name` and no non-null `num`
LacksIdentifier(d) ==
    /\ "name" \notin DOMAIN d \/ d["name"] = None
    /\ "num" \notin DOMAIN d \/ d["num"] = None

HasBadOption ==
    /\ params["options"] /= None
    /\ \E i \in 1..Len(params["options"][1]) : LacksIdentifier(params["options"][1][i])

\* the options list is handed to the vendor-option filter / the normalizer
OptionsInSchema == "options" \in DOMAIN ib_spec /\ params["options"] /= None

\* C1: once the selector has run on a valid IPv4 / IPv6 address, the object
\* type is the container type of that family when container is true and the
\* network type of that family when container is false or unset.
C1_TypeSelected ==
    pc /= "start" =>
        /\ IsV4 => network_type = Some(IF IsContainer THEN "networkcontainer" ELSE "network")
        /\ IsV6 => network_type = Some(IF IsContainer THEN "ipv6networkcontainer"
                                                      ELSE "ipv6network")

C1_Witness ==
    /\ pc = "filter" /\ IsV6 /\ IsContainer
    /\ network_type = Some("ipv6networkcontainer")

\* C2: after the selector the schema has lost `container` always, `options`
\* exactly when container is true, and every other field descriptor is
\* present and unchanged (also after the filter has returned the schema).
C2_SchemaFrame ==
    pc /= "start" =>
        /\ DOMAIN ib_spec = (Fields \ {"container"}) \ (IF IsContainer THEN {"options"} ELSE {})
        /\ \A k \in DOMAIN ib_spec : ib_spec[k] = IbSpec[k]

C2_Witness ==
    /\ pc = "filter" /\ IsContainer
    /\ "options" \notin DOMAIN ib_spec /\ "container" \notin DOMAIN ib_spec
    /\ "members" \in DOMAIN ib_spec

\* C3 (as claimed): an invocation whose options list holds a descriptor with
\* neither name nor num never ends with a successful output, whatever the
\* container flag.
C3_BadOptionNeverSucceeds == HasBadOption => pc /= "done"

\* C4: the normalizer fails exactly for the lists holding a descriptor that
\* has no non-null name and no non-null num; and the invocation fails with
\* the missing-identifier error only for such a list.
C4_FailsIffNoIdentifier ==
    /\ params["options"] /= None => (options(params).failed <=> HasBadOption)
    /\ failure = MissingIdentifier => HasBadOption
    /\ (pc \in {"exit", "done"} /\ OptionsInSchema) => ~HasBadOption

C4_Witness ==
    /\ pc = "failed" /\ failure = MissingIdentifier /\ run_calls = 1
    /\ Len(params["options"][1]) = 2
    /\ ~LacksIdentifier(params["options"][1][1])
    /\ params["options"][1][2]["name"] = None /\ params["options"][1][2]["num"] = None

\* C5: when the filter returns, each option descriptor it was handed with a
\* non-null num keeps use_option untouched if num is in {3,1,6,15,28,51,23},
\* and has no use_option otherwise, whatever its name.
C5_NumDecides ==
    [][(pc = "filter" /\ pc' = "run" /\ OptionsInSchema) =>
          /\ Len(params'["options"][1]) = Len(params["options"][1])
          /\ \A i \in 1..Len(params["options"][1]) :
                LET d == params["options"][1][i]
                    e == params'["options"][1][i]
                IN  ("num" \in DOMAIN d /\ d["num"] /= None) =>
                        IF d["num"][1] \in {3, 1, 6, 15, 28, 51, 23}
                        THEN e = d
                        ELSE "use_option" \notin DOMAIN e]_vars

C5_Witness ==
    /\ pc = "run" /\ OptionsInSchema
    /\ Len(params["options"][1]) = 2
    /\ LET d == params["options"][1][1]
           e == params["options"][1][2]
       IN  /\ d["num"] = Some(43) /\ d["name"] = Some("routers")
           /\ "use_option" \notin DOMAIN d
           /\ e["num"] = Some(3) /\ e["name"] = Some("vendor-encapsulated-options")
           /\ "use_option" \in DOMAIN e

\* C6 (as claimed): after the filter, an option descriptor with no num value
\* and a name outside the 8 registered names has no use_option.
C6_NameDecidesWithoutNum ==
    (pc = "run" /\ OptionsInSchema) =>
        \A i \in 1..Len(params["options"][1]) :
            LET d == params["options"][1][i]
            IN  (/\ "num" \notin DOMAIN d \/ d["num"] = None
                 /\ "name" \in DOMAIN d /\ d["name"] /= None
                 /\ d["name"][1] \notin
                        {"routers", "router-templates", "domain-name-servers",
                         "domain-name", "broadcast-address", "broadcast-address-offset",
                         "dhcp-lease-time", "dhcp6.name-servers"})
                => "use_option" \notin DOMAIN d

\* C7 (as claimed): an invocation on a valid address calls wapi.run exactly
\* once, with the selected type, and its output is the mapping run returned.
C7_RunExactlyOnce ==
    (pc \in {"done", "failed"} /\ (IsV4 \/ IsV6)) =>
        /\ run_calls = 1
        /\ run_type = network_type
        /\ pc = "done" => output = result

\* C8: a successful normalization leaves module.params as it was and sends a
\* list of the same length and order whose i-th entry holds exactly the
\* non-null fields of the i-th descriptor, with their values.
C8_NormalizerRoundTrip ==
    [][(pc = "run" /\ pc' = "exit" /\ OptionsInSchema) =>
          /\ params' = params
          /\ proposed' /= None
          /\ Len(proposed'[1]) = Len(params["options"][1])
          /\ \A i \in 1..Len(params["options"][1]) :
                LET d == params["options"][1][i]
                    o == proposed'[1][i]
                IN  /\ DOMAIN o = {k \in DOMAIN d : d[k] /= None}
                    /\ \A k \in DOMAIN o : o[k] = d[k]]_vars

C8_Witness ==
    /\ pc = "exit" /\ proposed /= None
    /\ Len(proposed[1]) = 2
    /\ DOMAIN proposed[1][1] = {"num", "value", "use_option", "vendor_class"}
    /\ DOMAIN proposed[1][2] = {"name", "value", "use_option", "vendor_class"}
    /\ params["options"][1][1]["name"] = None
    /\ params["options"][1][2]["num"] = None

\* C9: for an address that is neither IPv4 nor IPv6 the selector returns no
\* object type, whatever the container flag, and the invocation fails at
\* once: it never calls wapi.run and never produces an output.
C9_InvalidAddressFails ==
    (~IsV4 /\ ~IsV6) =>
        /\ check_ip_addr_type(ObjFilter(params, IbSpec), IbSpec).ret = None
        /\ network_type = None
        /\ pc \in {"start", "failed"}
        /\ run_calls = 0
        /\ output = None

C9_Witness ==
    /\ pc = "failed" /\ ~IsV4 /\ ~IsV6 /\ IsContainer
    /\ failure = Some("TypeError: cannot unpack non-iterable NoneType object")
    /\ run_calls = 0

\* C10 (as claimed): the filter always completes, and changes nothing but
\* the use_option field of the descriptors of an options list that is still
\* in the schema.
C10_FilterFrame ==
    [][pc = "filter" =>
          /\ pc' = "run"
          /\ ib_spec' = ib_spec
          /\ \A k \in Fields \ {"options"} : params'[k] = params[k]
          /\ ~OptionsInSchema => params'["options"] = params["options"]
          /\ OptionsInSchema =>
                /\ Len(params'["options"][1]) = Len(params["options"][1])
                /\ \A i \in 1..Len(params["options"][1]) :
                      Del(params'["options"][1][i], "use_option")
                          = Del(params["options"][1][i], "use_option")]_vars
====
